---------------------------- MODULE Spec2Model ----------------------------
(***************************************************************************)
(* The dashboard script dashboard/main.py as a state machine.  One run of   *)
(* the script is a chain of steps (pc); Streamlit runs the whole script     *)
(* again, in a fresh namespace, on every interaction (Rerun).               *)
(*                                                                          *)
(* Tables (pandas frames and series) are sequences of records, in row       *)
(* order.  A timestamp is [date, time]: a calendar day and a time of day,   *)
(* time 0 being midnight.  Rows without an approval timestamp (NaT) are     *)
(* not among the inputs.                                                    *)
(***************************************************************************)
EXTENDS Integers, Sequences, FiniteSets, TLC

\* ------------------------------------------------------------- bounds
MaxDay == 3
MaxOrders == 2
MaxReviews == 5
MaxGeo == 3
MaxCustomers == 2

Days == 1..MaxDay
TimesOfDay == {0, 1}
Timestamps == [date : Days, time : TimesOfDay]

VARIABLES
    csv,                 \* rows of data/all_data.csv
    geolocation,         \* rows of data/geolocation.csv
    pc,                  \* the statement the run is at
    raised,              \* the exception that ended the run, or none
    all_df, data, min_date, max_date,
    picked,              \* the tuple st.date_input returned
    start_date, end_date,
    main_df,
    map_plot,
    daily_orders_df, sum_order_items_df,
    review_score, common_score,
    state, most_common_state,
    order_status, common_status,
    total_order, total_revenue, avg_review_score,
    most_common_review_score,
    state_bars,
    common_status_,
    status_label,
    rendered,            \* the elements the run has put on the page
    first_run            \* history: what one earlier run computed

inputs == <<csv, geolocation>>
loaded == <<all_df, data, min_date, max_date>>
sidebar == <<picked, start_date, end_date>>
analysis == <<map_plot, daily_orders_df, sum_order_items_df, review_score,
              common_score, state, order_status, common_status>>
page == <<total_order, total_revenue, avg_review_score,
          most_common_review_score, state_bars, common_status_,
          status_label, rendered>>
vars == <<inputs, pc, raised, loaded, sidebar, main_df, most_common_state,
          analysis, page, first_run>>

\* ------------------------------------------------------------ helpers
Col(df, c) == [i \in 1..Len(df) |-> df[i][c]]

RECURSIVE Sum(_)
Sum(s) == IF s = <<>> THEN 0 ELSE s[1] + Sum(Tail(s))

Range(s) == {s[i] : i \in 1..Len(s)}

Count(s, v) == Cardinality({i \in 1..Len(s) : s[i] = v})

\* Timestamp comparison.
Leq(a, b) == a.date < b.date \/ (a.date = b.date /\ a.time <= b.time)

\* The rows of df at the positions of keep, in row order (a boolean mask).
RECURSIVE TakeRows(_, _)
TakeRows(df, keep) ==
    IF df = <<>> THEN <<>>
    ELSE LET n == Len(df)
             front == TakeRows(SubSeq(df, 1, n - 1), keep)
         IN IF n \in keep THEN Append(front, df[n]) ELSE front

\* ---------------------------------------------------- load (24 - 38)
\* all_df.sort_values(by="order_approved_at"): rows by approval timestamp,
\* rows that tie staying in file order.
RECURSIVE sort_values(_)
sort_values(df) ==
    IF df = <<>> THEN <<>>
    ELSE LET n == Len(df)
             front == sort_values(SubSeq(df, 1, n - 1))
             k == Cardinality({i \in 1..Len(front) :
                     Leq(front[i].order_approved_at, df[n].order_approved_at)})
         IN SubSeq(front, 1, k) \o <<df[n]>> \o SubSeq(front, k + 1, Len(front))

drop_duplicates_keep_last(df) ==
    TakeRows(df, {i \in 1..Len(df) : \A j \in (i + 1)..Len(df) :
                     df[j].customer_unique_id # df[i].customer_unique_id})

\* geolocation.drop_duplicates(subset='customer_unique_id'), keep='first'.
drop_duplicates(df) ==
    TakeRows(df, {i \in 1..Len(df) : \A j \in 1..(i - 1) :
                     df[j].customer_unique_id # df[i].customer_unique_id})

\* Series.min() and Series.max() of the approval timestamps.
MinTimestamp(df) ==
    CHOOSE t \in Range(Col(df, "order_approved_at")) :
        \A u \in Range(Col(df, "order_approved_at")) : Leq(t, u)
MaxTimestamp(df) ==
    CHOOSE t \in Range(Col(df, "order_approved_at")) :
        \A u \in Range(Col(df, "order_approved_at")) : Leq(u, t)

\* ------------------------------------------------- sidebar (41 - 49)
\* What st.date_input can hand back for a range: both dates, within
\* [min_value, max_value] and in order, or the first date alone while the
\* second has not been picked.
DateInputValues(lo, hi) ==
    LET span == lo.date..hi.date
    IN {p \in span \X span : p[1] <= p[2]} \cup {<<s>> : s \in span}

\* -------------------------------------------------- filter (51 - 53)
\* str(date): the date as YYYY-MM-DD text, which carries no time of day.
str(d) == [ymd |-> d]
\* A datetime column compared with a date string: the string is read as
\* the timestamp at midnight of that day.
AsTimestamp(s) == [date |-> s.ymd, time |-> 0]

FilterMask(df, s, e) ==
    {i \in 1..Len(df) :
        /\ Leq(AsTimestamp(str(s)), df[i].order_approved_at)
        /\ Leq(df[i].order_approved_at, AsTimestamp(str(e)))}

FrameFilteredInPlace(df, mask) == TakeRows(df, mask)

\* df[mask] builds a new frame; df itself is left as it was.
FrameAfterIndexing(df, mask) == df


\* ------------------------------------- DataAnalyzer (called at 56 - 64)
\* func.py, which holds DataAnalyzer and BrazilMapPlotter, is not among the
\* sources; the five operations follow section 4.1 of the design: frequency
\* tables in first-encountered order, empty tables for empty input.
\* The distinct values of s, in the order they are first met.
RECURSIVE UniqueInOrder(_)
UniqueInOrder(s) ==
    IF s = <<>> THEN <<>>
    ELSE LET n == Len(s)
             front == UniqueInOrder(SubSeq(s, 1, n - 1))
         IN IF s[n] \in Range(front) THEN front ELSE Append(front, s[n])

\* A frequency table: one row per distinct value, with its count.
FreqTable(s) ==
    LET u == UniqueInOrder(s)
    IN [i \in 1..Len(u) |-> [index |-> u[i], value |-> Count(s, u[i])]]

\* The index of the first row holding the largest count; none for no rows.
Mode(table, none) ==
    IF table = <<>> THEN none
    ELSE LET best == CHOOSE i \in 1..Len(table) :
                 /\ \A j \in 1..Len(table) : table[j].value <= table[i].value
                 /\ \A j \in 1..(i - 1) : table[j].value < table[i].value
         IN table[best].index

\* The members of a set of integers, ascending.
RECURSIVE Ascending(_)
Ascending(S) ==
    IF S = {} THEN <<>>
    ELSE LET m == CHOOSE x \in S : \A y \in S : x <= y
         IN <<m>> \o Ascending(S \ {m})

create_daily_orders_df(df) ==
    LET dates == Ascending({df[i].order_approved_at.date : i \in 1..Len(df)})
        on(d) == TakeRows(df, {i \in 1..Len(df) : df[i].order_approved_at.date = d})
    IN [k \in 1..Len(dates) |->
           [order_approved_at |-> dates[k],
            order_count |-> Len(on(dates[k])),
            revenue |-> Sum(Col(on(dates[k]), "payment_value"))]]

\* Category names in ascending order of name.
Categories == <<"auto", "baby", "toys">>
CategoryRank(c) == CHOOSE i \in 1..Len(Categories) : Categories[i] = c

\* Rows by count descending, equal counts by category name ascending.
RECURSIVE SortItems(_)
SortItems(rows) ==
    IF rows = {} THEN <<>>
    ELSE LET top == CHOOSE r \in rows : \A q \in rows :
                 \/ q.product_count < r.product_count
                 \/ /\ q.product_count = r.product_count
                    /\ CategoryRank(r.product_category_name_english)
                           <= CategoryRank(q.product_category_name_english)
         IN <<top>> \o SortItems(rows \ {top})

create_sum_order_items_df(df) ==
    LET cats == Col(df, "product_category_name_english")
    IN SortItems({[product_category_name_english |-> c,
                   product_count |-> Count(cats, c)] : c \in Range(cats)})

review_score_df(df) ==
    LET t == FreqTable(Col(df, "review_score"))
    IN [table |-> t, mode |-> Mode(t, 0)]

create_bystate_df(df) ==
    LET t == FreqTable(Col(df, "customer_state"))
    IN [table |-> [i \in 1..Len(t) |->
                      [customer_state |-> t[i].index, customer_count |-> t[i].value]],
        mode |-> Mode(t, "")]

create_order_status(df) ==
    LET t == FreqTable(Col(df, "order_status"))
    IN [table |-> t, mode |-> Mode(t, "")]

\* --------------------------------------------- the page (66 - 207)
\* f"{x:.2f}" of num/den, in hundredths: the nearest, a half to the even.
Format2f(num, den) ==
    LET q == (100 * num) \div den
        r == (100 * num) % den
    IN IF 2 * r > den THEN q + 1
       ELSE IF 2 * r = den THEN q + (q % 2)
       ELSE q

\* Series.mean() shown with two decimals; -1 stands for "nan", the mean of
\* no values.
MeanLabel(values) ==
    IF values = <<>> THEN 0 - 1 ELSE Format2f(Sum(values), Len(values))

\* Series.value_counts().index: the distinct values, the more frequent
\* first; pandas leaves the order of equally frequent values open.
ValueCountsIndex(s) ==
    LET vals == Range(s)
        n == Cardinality(vals)
    IN {p \in [1..n -> vals] :
           /\ \A i, j \in 1..n : i # j => p[i] # p[j]
           /\ \A i \in 1..(n - 1) : Count(s, p[i]) >= Count(s, p[i + 1])}

\* An f-string of a number or of a string.
FString(v) == ToString(v)

NoError == [type |-> "none", line |-> 0]

\* A fresh namespace: nothing of the script is bound yet.
Unset ==
    /\ raised = NoError
    /\ all_df = <<>> /\ data = <<>>
    /\ min_date = <<>> /\ max_date = <<>>
    /\ start_date = 0 /\ end_date = 0
    /\ main_df = <<>>
    /\ map_plot = <<>>
    /\ daily_orders_df = <<>> /\ sum_order_items_df = <<>>
    /\ review_score = <<>> /\ common_score = 0
    /\ state = <<>> /\ most_common_state = ""
    /\ order_status = <<>> /\ common_status = ""
    /\ total_order = 0 /\ total_revenue = 0 /\ avg_review_score = 0
    /\ most_common_review_score = 0
    /\ state_bars = <<>>
    /\ common_status_ = 0
    /\ status_label = ""
    /\ rendered = {}

Reset ==
    /\ raised' = NoError
    /\ all_df' = <<>> /\ data' = <<>>
    /\ min_date' = <<>> /\ max_date' = <<>>
    /\ start_date' = 0 /\ end_date' = 0
    /\ main_df' = <<>>
    /\ map_plot' = <<>>
    /\ daily_orders_df' = <<>> /\ sum_order_items_df' = <<>>
    /\ review_score' = <<>> /\ common_score' = 0
    /\ state' = <<>> /\ most_common_state' = ""
    /\ order_status' = <<>> /\ common_status' = ""
    /\ total_order' = 0 /\ total_revenue' = 0 /\ avg_review_score' = 0
    /\ most_common_review_score' = 0
    /\ state_bars' = <<>>
    /\ common_status_' = 0
    /\ status_label' = ""
    /\ rendered' = {}

\* ------------------------------------------------------------ inputs
Order(id, t, attrs) ==
    [order_id |-> id,
     order_approved_at |-> t,
     payment_value |-> 10 * id,
     product_category_name_english |-> attrs.category,
     review_score |-> attrs.score,
     customer_state |-> attrs.state,
     order_status |-> attrs.status]

Profiles ==
    {[score |-> 5, state |-> "SP", status |-> "delivered", category |-> "toys"],
     [score |-> 4, state |-> "RJ", status |-> "shipped", category |-> "baby"],
     [score |-> 3, state |-> "MG", status |-> "canceled", category |-> "auto"]}
Usual == CHOOSE a \in Profiles : a.score = 5
Midnight1 == [date |-> 1, time |-> 0]

\* Order files whose rows differ in their approval timestamps.
DatedCsvs ==
    UNION {{[i \in 1..n |-> Order(i, ts[i], Usual)] : ts \in [1..n -> Timestamps]} :
               n \in 1..MaxOrders}

\* Order files whose rows differ in score, state, status and category.
ProfiledCsvs ==
    UNION {{[i \in 1..n |-> Order(i, Midnight1, as[i])] : as \in [1..n -> Profiles]} :
               n \in 1..MaxReviews}

OneRowCsv == <<Order(1, Midnight1, Usual)>>

Customers == 1..MaxCustomers
GeoRows ==
    [customer_unique_id : Customers,
     geolocation_lat : {10, 20}, geolocation_lng : {30},
     geolocation_state : {"SP"}]
OneGeo == <<CHOOSE g \in GeoRows : g.customer_unique_id = 1 /\ g.geolocation_lat = 10>>
GeoFiles == UNION {[1..n -> GeoRows] : n \in 0..MaxGeo}

Start(orders, geo) ==
    /\ csv = orders
    /\ geolocation = geo
    /\ pc = "load"
    /\ picked = <<>>
    /\ first_run = <<>>
    /\ Unset

Init == \E orders \in DatedCsvs : Start(orders, OneGeo)
InitProfiled == \E orders \in ProfiledCsvs : Start(orders, OneGeo)
InitGeo == \E geo \in GeoFiles : Start(OneRowCsv, geo)

\* ------------------------------------------------------------- steps
Raise(type, line) ==
    /\ raised' = [type |-> type, line |-> line]
    /\ pc' = "aborted"

\* 23 - 38: read both files, sort the orders, drop the repeated customers,
\* take the first and last approval timestamps.
Load ==
    /\ pc = "load"
    /\ all_df' = sort_values(csv)
    /\ data' = drop_duplicates(geolocation)
    /\ min_date' = MinTimestamp(all_df')
    /\ max_date' = MaxTimestamp(all_df')
    /\ pc' = "sidebar"
    /\ UNCHANGED <<inputs, raised, sidebar, main_df, most_common_state,
                   analysis, page, first_run>>

\* 41 - 49: the sidebar; the widget hands back its default, the whole
\* range, until the user has touched it, and the script unpacks two dates.
Sidebar ==
    /\ pc = "sidebar"
    /\ LET value == IF picked = <<>> THEN <<min_date.date, max_date.date>>
                    ELSE picked
       IN IF Len(value) = 2
          THEN /\ start_date' = value[1]
               /\ end_date' = value[2]
               /\ rendered' = rendered \cup {"sidebar"}
               /\ pc' = "filter"
               /\ UNCHANGED raised
          ELSE /\ Raise("ValueError", 44)
               /\ rendered' = rendered \cup {"sidebar"}
               /\ UNCHANGED <<start_date, end_date>>
    /\ UNCHANGED <<inputs, loaded, picked, main_df, most_common_state, analysis,
                   total_order, total_revenue, avg_review_score,
                   most_common_review_score, state_bars, common_status_,
                   status_label, first_run>>

\* 51 - 53
Filter ==
    /\ pc = "filter"
    /\ LET mask == FilterMask(all_df, start_date, end_date)
       IN /\ main_df' = TakeRows(all_df, mask)
          /\ all_df' = FrameAfterIndexing(all_df, mask)
    /\ pc' = "analyze"
    /\ UNCHANGED <<inputs, raised, data, min_date, max_date, sidebar,
                   most_common_state, analysis, page, first_run>>

\* The five aggregate results, as the analyzer returned them.
Aggregates ==
    <<daily_orders_df, sum_order_items_df, <<review_score, common_score>>,
      <<state, most_common_state>>, <<order_status, common_status>>>>

\* 55 - 64
Analysis ==
    /\ pc = "analyze"
    /\ map_plot' = <<[data |-> data]>>
    /\ daily_orders_df' = create_daily_orders_df(main_df)
    /\ sum_order_items_df' = create_sum_order_items_df(main_df)
    /\ review_score' = review_score_df(main_df).table
    /\ common_score' = review_score_df(main_df).mode
    /\ state' = create_bystate_df(main_df).table
    /\ most_common_state' = create_bystate_df(main_df).mode
    /\ order_status' = create_order_status(main_df).table
    /\ common_status' = create_order_status(main_df).mode
    /\ pc' = "overview"
    /\ UNCHANGED <<inputs, raised, loaded, sidebar, main_df, page>>

Analyze ==
    /\ Analysis
    /\ UNCHANGED first_run

\* Analyze, with the range and results of one run of the session, any of
\* them, kept for comparison with the runs after it.
AnalyzeRecording ==
    /\ Analysis
    /\ \E keep \in BOOLEAN :
          first_run' = IF first_run = <<>> /\ keep
                       THEN <<[range |-> <<start_date, end_date>>,
                               main_df |-> main_df,
                               aggregates |-> Aggregates']>>
                       ELSE first_run

Show(elements) == rendered' = rendered \cup elements

\* 66 - 86
Overview ==
    /\ pc = "overview"
    /\ total_order' = Sum(Col(daily_orders_df, "order_count"))
    /\ total_revenue' = Sum(Col(daily_orders_df, "revenue"))
    /\ avg_review_score' = MeanLabel(Col(review_score, "value"))
    /\ Show({"title", "Total Orders", "Total Revenue", "Avg. Review Score"})
    /\ pc' = "tab1"
    /\ UNCHANGED <<inputs, raised, loaded, sidebar, main_df, most_common_state,
                   analysis, most_common_review_score, state_bars,
                   common_status_, status_label, first_run>>

\* 91 - 106
Tab1 ==
    /\ pc = "tab1"
    /\ Show({"Daily Orders chart"})
    /\ pc' = "tab2"
    /\ UNCHANGED <<inputs, raised, loaded, sidebar, main_df, most_common_state,
                   analysis, total_order, total_revenue, avg_review_score,
                   most_common_review_score, state_bars, common_status_,
                   status_label, first_run>>

\* 108 - 139
Tab2 ==
    /\ pc = "tab2"
    /\ Show({"Total Items Sold", "Avg. Items per Order", "Order Items chart"})
    /\ pc' = "tab3"
    /\ UNCHANGED <<inputs, raised, loaded, sidebar, main_df, most_common_state,
                   analysis, total_order, total_revenue, avg_review_score,
                   most_common_review_score, state_bars, common_status_,
                   status_label, first_run>>

\* 141 - 158: idxmax of no values raises ValueError.
Tab3 ==
    /\ pc = "tab3"
    /\ IF review_score = <<>>
       THEN /\ Raise("ValueError", 146)
            /\ UNCHANGED <<most_common_review_score, rendered>>
       ELSE \E index \in ValueCountsIndex(Col(review_score, "value")) :
               /\ most_common_review_score' = index[1]
               /\ Show({"Most Common Review Score", "Customer Ratings chart"})
               /\ pc' = "tab_state"
               /\ UNCHANGED raised
    /\ UNCHANGED <<inputs, loaded, sidebar, main_df, most_common_state, analysis,
                   total_order, total_revenue, avg_review_score, state_bars,
                   common_status_, status_label, first_run>>

\* 165 - 180: index[0] of no values raises IndexError.  The bars take
\* their names from value_counts().index and their heights from the rows
\* of the table, position by position.
TabState ==
    /\ pc = "tab_state"
    /\ IF state = <<>>
       THEN /\ Raise("IndexError", 166)
            /\ UNCHANGED <<most_common_state, state_bars, rendered>>
       ELSE \E index \in ValueCountsIndex(Col(state, "customer_state")) :
               /\ most_common_state' = index[1]
               /\ state_bars' = [i \in 1..Len(state) |->
                                    [x |-> index[i], y |-> state[i].customer_count]]
               /\ Show({"Most Common State", "State chart"})
               /\ pc' = "tab_status"
               /\ UNCHANGED raised
    /\ UNCHANGED <<inputs, loaded, sidebar, main_df, analysis, total_order,
                   total_revenue, avg_review_score, most_common_review_score,
                   common_status_, status_label, first_run>>

\* 182 - 197
TabStatus ==
    /\ pc = "tab_status"
    /\ IF order_status = <<>>
       THEN /\ Raise("IndexError", 183)
            /\ UNCHANGED <<common_status_, status_label, rendered>>
       ELSE \E index \in ValueCountsIndex(Col(order_status, "value")) :
               /\ common_status_' = index[1]
               /\ status_label' = FString(index[1])
               /\ Show({"Most Common Order Status", "Order Status chart"})
               /\ pc' = "tab_map"
               /\ UNCHANGED raised
    /\ UNCHANGED <<inputs, loaded, sidebar, main_df, most_common_state, analysis,
                   total_order, total_revenue, avg_review_score,
                   most_common_review_score, state_bars, first_run>>

\* 199 - 200: map_plot.plot() draws the map, or fails when the background
\* image cannot be had; nothing around the call catches the failure.
TabMap ==
    /\ pc = "tab_map"
    /\ \E image \in {"fetched", "unavailable"} :
          IF image = "fetched"
          THEN /\ Show({"map"})
               /\ pc' = "expander"
               /\ UNCHANGED raised
          ELSE /\ Raise("URLError", 200)
               /\ UNCHANGED rendered
    /\ UNCHANGED <<inputs, loaded, sidebar, main_df, most_common_state, analysis,
                   total_order, total_revenue, avg_review_score,
                   most_common_review_score, state_bars, common_status_,
                   status_label, first_run>>

\* 201 - 207
Expander ==
    /\ pc = "expander"
    /\ Show({"See Explanation"})
    /\ pc' = "done"
    /\ UNCHANGED <<inputs, raised, loaded, sidebar, main_df, most_common_state,
                   analysis, total_order, total_revenue, avg_review_score,
                   most_common_review_score, state_bars, common_status_,
                   status_label, first_run>>

Finished == pc \in {"done", "aborted"}

\* The user changes the date range: the widget keeps the new value and the
\* script starts again from its first line with nothing else kept.
Interact ==
    /\ Finished
    /\ \E value \in DateInputValues(min_date, max_date) : picked' = value
    /\ pc' = "load"
    /\ Reset

Rerun ==
    /\ Interact
    /\ UNCHANGED <<inputs, first_run>>

Next ==
    \/ Load \/ Sidebar \/ Filter \/ Analyze \/ Overview \/ Tab1 \/ Tab2
    \/ Tab3 \/ TabState \/ TabStatus \/ TabMap \/ Expander \/ Rerun

NextRecording ==
    \/ Load \/ Sidebar \/ Filter \/ AnalyzeRecording \/ Overview \/ Tab1
    \/ Tab2 \/ Tab3 \/ TabState \/ TabStatus \/ TabMap \/ Expander \/ Rerun

Spec == Init /\ [][Next]_vars
SpecProfiled == InitProfiled /\ [][Next]_vars
SpecGeo == InitGeo /\ [][Next]_vars
SpecRecording == Init /\ [][NextRecording]_vars

\* ------------------------------------------------------------ claims
\* The run has filtered: main_df holds the working set.
HasFiltered ==
    \/ pc \in {"analyze", "overview", "tab1", "tab2", "tab3", "tab_state",
               "tab_status", "tab_map", "expander", "done"}
    \/ pc = "aborted" /\ raised.line > 53

InRange(row) ==
    start_date <= row.order_approved_at.date /\ row.order_approved_at.date <= end_date

\* C1: an order is in main_df exactly when the calendar date of its
\* approval lies in [start_date, end_date], whatever its time of day.
C1_FilterInclusiveBothEnds ==
    HasFiltered =>
        \A i \in 1..Len(all_df) : all_df[i] \in Range(main_df) <=> InRange(all_df[i])

NoOrdersOn(d) == \A i \in 1..Len(csv) : csv[i].order_approved_at.date # d

\* C2: a run over a single date that has no orders completes, its five
\* aggregate tables empty.
C2_EmptyRangeCompletes ==
    (Finished /\ HasFiltered /\ start_date = end_date /\ NoOrdersOn(start_date)) =>
        /\ pc = "done"
        /\ daily_orders_df = <<>> /\ sum_order_items_df = <<>>
        /\ review_score = <<>> /\ state = <<>> /\ order_status = <<>>

\* The indexes of a frequency table that hold its largest count.
Modal(table) ==
    {table[i].index : i \in {k \in 1..Len(table) :
                                \A j \in 1..Len(table) : table[j].value <= table[k].value}}

\* C3: the score shown as Most Common Review Score is a score with the
\* largest count in the review-score table.
C3_ShownScoreIsModal ==
    "Most Common Review Score" \in rendered =>
        most_common_review_score \in Modal(review_score)

\* C4: the Avg. Review Score shown is the sum of the scores of the filtered
\* records over their number.
C4_ShownAverageIsMeanScore ==
    ("Avg. Review Score" \in rendered /\ main_df # <<>>) =>
        avg_review_score = Format2f(Sum(Col(main_df, "review_score")), Len(main_df))

\* C5: the status shown as Most Common Order Status is the status with the
\* largest count, the one whose bar is highlighted.
C5_ShownStatusIsModal ==
    "Most Common Order Status" \in rendered =>
        /\ status_label \in Modal(order_status)
        /\ status_label = common_status

\* C6: the state shown as Most Common State is the state with the largest
\* customer count, and every bar of the State chart pairs a state with its
\* own count.
C6_ShownStateIsModal ==
    "Most Common State" \in rendered =>
        /\ most_common_state \in
               Modal([i \in 1..Len(state) |->
                         [index |-> state[i].customer_state,
                          value |-> state[i].customer_count]])
        /\ \A b \in 1..Len(state_bars) : \E i \in 1..Len(state) :
               /\ state[i].customer_state = state_bars[b].x
               /\ state[i].customer_count = state_bars[b].y

Ids(table) == {table[i].customer_unique_id : i \in 1..Len(table)}

\* C7: the table handed to the map plotter holds every customer id of
\* geolocation.csv once, with the first row the file has for it.
C7_GeoDedupKeepsFirst ==
    map_plot # <<>> =>
        LET t == map_plot[1].data
        IN /\ Ids(t) = Ids(geolocation)
           /\ \A i, j \in 1..Len(t) :
                  t[i].customer_unique_id = t[j].customer_unique_id => i = j
           /\ \A k \in 1..Len(t) : \E i \in 1..Len(geolocation) :
                  /\ geolocation[i] = t[k]
                  /\ \A j \in 1..(i - 1) :
                         geolocation[j].customer_unique_id # t[k].customer_unique_id

C7_RepeatedCustomerPlotted ==
    /\ map_plot # <<>>
    /\ \E i, j \in 1..Len(geolocation) :
          /\ i < j
          /\ geolocation[i].customer_unique_id = geolocation[j].customer_unique_id
          /\ geolocation[i].geolocation_lat # geolocation[j].geolocation_lat
    /\ Len(map_plot[1].data) < Len(geolocation)

\* C8: when map_plot.plot() fails for want of the background image, the
\* rest of the page, the See Explanation expander included, is still shown.
C8_MapFailureKeepsPage ==
    (Finished /\ raised.line = 200) =>
        {"title", "Total Orders", "Daily Orders chart", "Order Items chart",
         "Customer Ratings chart", "State chart", "Order Status chart",
         "See Explanation"} \subseteq rendered

\* C9: whatever the date control hands back, the run does not end in an
\* unhandled error at the control, and it filters with
\* min_date <= start_date <= end_date <= max_date.
C9_DateSelectionHandled ==
    /\ ~(pc = "aborted" /\ raised.line = 44)
    /\ HasFiltered =>
           /\ min_date.date <= start_date
           /\ start_date <= end_date
           /\ end_date <= max_date.date

=============================================================================
